---- MODULE Spec2Model ----
(***************************************************************************)
(* Model of dtle's per-table row filter (drivers/mysql/common/tabletypes.go)*)
(* Table, TableContext, WhereContext, NewWhereCtx and WhereTrue, together  *)
(* with the catalog / notification operations that drive them.             *)
(*                                                                         *)
(* Texts are sequences of lexemes (a blank is the lexeme " "); the Go      *)
(* string is their concatenation.  Row values are tagged records.          *)
(***************************************************************************)
EXTENDS Integers, Sequences, FiniteSets, TLC

VARIABLES table, phase, tableCtx, compileRes, lastEval,
          schemaVersion, ctxVersion, lastRet, calls

vars == <<table, phase, tableCtx, compileRes, lastEval,
          schemaVersion, ctxVersion, lastRet, calls>>

-----------------------------------------------------------------------------
(* Bounds *)

MaxRowLen == 2
MaxSchemaChanges == 2
MaxCalls == 2

-----------------------------------------------------------------------------
(* Values of a decoded row: an interface{} holding nil, an integer or a    *)
(* byte slice; strings and booleans arise in the evaluation.               *)

NilValue == [k |-> "nil"]
IntValue(n) == [k |-> "int", i |-> n]
BytesValue(bs) == [k |-> "bytes", b |-> bs]
StrValue(cs) == [k |-> "str", s |-> cs]
BoolValue(x) == [k |-> "bool", t |-> x]

RowValues == {NilValue, IntValue(30), IntValue(31), BytesValue(<<120>>)}

RECURSIVE SeqsUpTo(_, _)
SeqsUpTo(S, n) ==
    IF n = 0 THEN {<<>>}
    ELSE LET shorter == SeqsUpTo(S, n - 1)
         IN shorter \cup {Append(r, v) : r \in {q \in shorter : Len(q) = n - 1}, v \in S}

Rows == SeqsUpTo(RowValues, MaxRowLen)

(* string(bs): every byte becomes the character it encodes *)
CharOf(byte) ==
    CASE byte = 120 -> "x"
      [] byte = 121 -> "y"
      [] OTHER -> "?"

BytesToString(bs) == StrValue([j \in 1..Len(bs) |-> CharOf(bs[j])])

-----------------------------------------------------------------------------
(* strings.ToLower / strings.TrimSpace on lexeme texts *)

ToLowerStr(s) ==
    CASE s = "TRUE" -> "true"
      [] s = "True" -> "true"
      [] s = "FALSE" -> "false"
      [] s = "Status" -> "status"
      [] s = "Age" -> "age"
      [] OTHER -> s

ToLower(text) == [j \in 1..Len(text) |-> ToLowerStr(text[j])]

RECURSIVE TrimLeft(_)
TrimLeft(text) ==
    IF Len(text) > 0 /\ Head(text) = " " THEN TrimLeft(Tail(text)) ELSE text

RECURSIVE TrimRight(_)
TrimRight(text) ==
    IF Len(text) > 0 /\ text[Len(text)] = " "
    THEN TrimRight(SubSeq(text, 1, Len(text) - 1)) ELSE text

TrimSpace(text) == TrimRight(TrimLeft(text))

-----------------------------------------------------------------------------
(* Column metadata *)

TextColumnType == "text"
IntColumnType == "int"
VarcharColumnType == "varchar"

Column(name, type) == [Name |-> name, Type |-> type]

Schemas ==
    { <<Column("age", IntColumnType)>>,
      <<Column("note", TextColumnType)>>,
      <<Column("Status", VarcharColumnType), Column("age", IntColumnType)>>,
      <<Column("note", TextColumnType), Column("age", IntColumnType)>>,
      <<Column("age", IntColumnType), Column("Status", TextColumnType)>> }

(* ColumnList.Ordinals: lower-cased column name -> zero-based ordinal *)
Ordinals(cols) ==
    [n \in {ToLowerStr(cols[j].Name) : j \in 1..Len(cols)} |->
        (CHOOSE j \in 1..Len(cols) : ToLowerStr(cols[j].Name) = n) - 1]

-----------------------------------------------------------------------------
(* The expression language (parse, identifier extraction, evaluation) *)

Operators == {">", "="}

IsNumber(tok) == tok \in {"1", "30"}
NumberOf(tok) == IF tok = "1" THEN 1 ELSE 30
IsStringLit(tok) == tok \in {"'x'"}
IsKeyword(tok) == tok \in Operators \cup {"and", " "}

IdentNode(text) == [t |-> "ident", text |-> text]
LitNode(val) == [t |-> "lit", val |-> val]
BinNode(op, l, r) == [t |-> "bin", op |-> op, l |-> l, r |-> r]
BadNode == [t |-> "bad"]

Tokens(text) == SelectSeq(text, LAMBDA tok : tok # " ")

ParseOperand(tok) ==
    IF IsKeyword(tok) THEN BadNode
    ELSE IF IsNumber(tok) THEN LitNode(IntValue(NumberOf(tok)))
    ELSE IF IsStringLit(tok) THEN LitNode(StrValue(<<"x">>))
    ELSE IdentNode(tok)

ParseCmp(toks) ==
    IF Len(toks) = 1 THEN ParseOperand(toks[1])
    ELSE IF Len(toks) = 3 /\ toks[2] \in Operators
    THEN LET l == ParseOperand(toks[1])
             r == ParseOperand(toks[3])
         IN IF l.t = "bad" \/ r.t = "bad" THEN BadNode ELSE BinNode(toks[2], l, r)
    ELSE BadNode

RECURSIVE ParseAnd(_)
ParseAnd(toks) ==
    IF \E j \in 1..Len(toks) : toks[j] = "and"
    THEN LET p == CHOOSE j \in 1..Len(toks) :
                     toks[j] = "and" /\ \A h \in 1..(j - 1) : toks[h] # "and"
             l == ParseCmp(SubSeq(toks, 1, p - 1))
             r == ParseAnd(SubSeq(toks, p + 1, Len(toks)))
         IN IF l.t = "bad" \/ r.t = "bad" THEN BadNode ELSE BinNode("and", l, r)
    ELSE ParseCmp(toks)

(* expr.ParseExpression: [ok, ast] *)
ParseExpression(where) ==
    LET ast == ParseAnd(Tokens(where))
    IN [ok |-> ast.t # "bad", ast |-> ast]

(* expr.FindAllIdentityField: identifiers in left-to-right order *)
RECURSIVE FindAllIdentityField(_)
FindAllIdentityField(node) ==
    CASE node.t = "ident" -> <<node.text>>
      [] node.t = "bin" -> FindAllIdentityField(node.l) \o FindAllIdentityField(node.r)
      [] OTHER -> <<>>

IsBooleanIdentity(text) == ToLowerStr(text) \in {"true", "false"}

EvalFail == [ok |-> FALSE, val |-> NilValue]
EvalOk(v) == [ok |-> TRUE, val |-> v]

(* vm.Eval over a name -> value environment: [ok, val] *)
RECURSIVE Eval(_, _)
Eval(m, node) ==
    CASE node.t = "ident" ->
            IF IsBooleanIdentity(node.text)
            THEN EvalOk(BoolValue(ToLowerStr(node.text) = "true"))
            ELSE IF node.text \in DOMAIN m THEN EvalOk(m[node.text]) ELSE EvalFail
      [] node.t = "lit" -> EvalOk(node.val)
      [] node.t = "bin" ->
            LET a == Eval(m, node.l)
                b == Eval(m, node.r)
            IN IF ~a.ok \/ ~b.ok THEN EvalFail
               ELSE IF node.op = "and"
               THEN IF a.val.k = "bool" /\ b.val.k = "bool"
                    THEN EvalOk(BoolValue(a.val.t /\ b.val.t)) ELSE EvalFail
               ELSE IF node.op = ">"
               THEN IF a.val.k = "int" /\ b.val.k = "int"
                    THEN EvalOk(BoolValue(a.val.i > b.val.i)) ELSE EvalFail
               ELSE IF a.val.k = "int" /\ b.val.k = "int"
                    THEN EvalOk(BoolValue(a.val.i = b.val.i))
               ELSE IF a.val.k = "str" /\ b.val.k = "str"
                    THEN EvalOk(BoolValue(a.val.s = b.val.s))
               ELSE EvalFail
      [] OTHER -> EvalFail

-----------------------------------------------------------------------------
(* tabletypes.go *)

EmptyMap == [x \in {} |-> 0]

DefaultWhere == <<"true">>

(* The nil *ColumnList of a table whose columns have not been set.  A      *)
(* ColumnList that has been set holds at least one column.                 *)
NilColumnList == <<>>

NewTable(schemaName, tableName) ==
    [TableSchema |-> schemaName,
     TableName |-> tableName,
     Iteration |-> 0,
     Where |-> DefaultWhere,
     OriginalTableColumns |-> NilColumnList]

NoError == [kind |-> "nil", field |-> "", schema |-> "", table |-> "", known |-> EmptyMap]
ParseError == [kind |-> "parse", field |-> "", schema |-> "", table |-> "", known |-> EmptyMap]
(* the runtime panic of table.OriginalTableColumns.Ordinals on a nil pointer *)
NilDereference == [kind |-> "panic", field |-> "", schema |-> "", table |-> "", known |-> EmptyMap]
UnknownFieldError(tbl, field) ==
    [kind |-> "unknown field", field |-> field, schema |-> tbl.TableSchema,
     table |-> tbl.TableName, known |-> Ordinals(tbl.OriginalTableColumns)]

NoWhereCtx == [Where |-> <<>>, Ast |-> BadNode, FieldsMap |-> EmptyMap, IsDefault |-> FALSE]

(* the loop of NewWhereCtx over the identifiers, from position j on *)
RECURSIVE ResolveFields(_, _, _, _)
ResolveFields(fields, j, fieldsMap, tbl) ==
    IF j > Len(fields)
    THEN [ok |-> TRUE, panic |-> FALSE, fieldsMap |-> fieldsMap, field |-> ""]
    ELSE LET field == fields[j]
             escapedFieldName == ToLowerStr(field)
             ords == Ordinals(tbl.OriginalTableColumns)
         IN IF escapedFieldName = "true" \/ escapedFieldName = "false"
            THEN ResolveFields(fields, j + 1, fieldsMap, tbl)
            ELSE IF field \notin DOMAIN fieldsMap
            THEN IF tbl.OriginalTableColumns = NilColumnList
                 THEN [ok |-> FALSE, panic |-> TRUE, fieldsMap |-> EmptyMap, field |-> field]
                 ELSE IF field \notin DOMAIN ords
                 THEN [ok |-> FALSE, panic |-> FALSE, fieldsMap |-> EmptyMap, field |-> field]
                 ELSE ResolveFields(fields, j + 1, (field :> ords[field]) @@ fieldsMap, tbl)
            ELSE ResolveFields(fields, j + 1, fieldsMap, tbl)

(* variant: the text is compared without case folding *)
IsDefaultWhereExact(where) == where = <<"true">>

IsDefaultWhere(where) == ToLower(where) = <<"true">>

(* variant: identifiers are bound without checking that the column exists *)
NewWhereCtxUnchecked(where, tbl) ==
    LET parsed == ParseExpression(where)
        ids == FindAllIdentityField(parsed.ast)
        ords == Ordinals(tbl.OriginalTableColumns)
        names == {ids[j] : j \in 1..Len(ids)} \ {"true", "TRUE", "True", "false", "FALSE"}
    IN IF ~parsed.ok THEN [ok |-> FALSE, ctx |-> NoWhereCtx, err |-> ParseError]
       ELSE [ok |-> TRUE,
             ctx |-> [Where |-> where, Ast |-> parsed.ast,
                      FieldsMap |-> [f \in names |-> IF f \in DOMAIN ords THEN ords[f] ELSE 0],
                      IsDefault |-> IsDefaultWhere(where)],
             err |-> NoError]

(* variant: one-based ordinals are bound *)
NewWhereCtxOneBased(where, tbl) ==
    LET parsed == ParseExpression(where)
    IN IF ~parsed.ok THEN [ok |-> FALSE, ctx |-> NoWhereCtx, err |-> ParseError]
       ELSE LET res == ResolveFields(FindAllIdentityField(parsed.ast), 1, EmptyMap, tbl)
            IN IF res.panic
               THEN [ok |-> FALSE, ctx |-> NoWhereCtx, err |-> NilDereference]
               ELSE IF ~res.ok
               THEN [ok |-> FALSE, ctx |-> NoWhereCtx, err |-> UnknownFieldError(tbl, res.field)]
               ELSE [ok |-> TRUE,
                     ctx |-> [Where |-> where, Ast |-> parsed.ast,
                              FieldsMap |-> [f \in DOMAIN res.fieldsMap |-> res.fieldsMap[f] + 1],
                              IsDefault |-> IsDefaultWhere(where)],
                     err |-> NoError]

NewWhereCtx(where, tbl) ==
    LET parsed == ParseExpression(where)
    IN IF ~parsed.ok THEN [ok |-> FALSE, ctx |-> NoWhereCtx, err |-> ParseError]
       ELSE LET res == ResolveFields(FindAllIdentityField(parsed.ast), 1, EmptyMap, tbl)
            IN IF res.panic
               THEN [ok |-> FALSE, ctx |-> NoWhereCtx, err |-> NilDereference]
               ELSE IF ~res.ok
               THEN [ok |-> FALSE, ctx |-> NoWhereCtx, err |-> UnknownFieldError(tbl, res.field)]
               ELSE [ok |-> TRUE,
                     ctx |-> [Where |-> where, Ast |-> parsed.ast,
                              FieldsMap |-> res.fieldsMap,
                              IsDefault |-> IsDefaultWhere(where)],
                     err |-> NoError]

(* variant: the flag starts set *)
NewTableContextSent(tbl, whereCtx) ==
    [Table |-> <<tbl.TableSchema, tbl.TableName>>, WhereCtx |-> whereCtx, DefChangedSent |-> TRUE]

(* TableContext.Table is a pointer to the table: the field holds the name  *)
(* of the table and is dereferenced as the variable table.                 *)
NewTableContext(tbl, whereCtx) ==
    [Table |-> <<tbl.TableSchema, tbl.TableName>>, WhereCtx |-> whereCtx, DefChangedSent |-> FALSE]

NoTableCtx == [Table |-> <<"", "">>, WhereCtx |-> NoWhereCtx, DefChangedSent |-> FALSE]

EvalResult(r, err, m, reads) == [r |-> r, err |-> err, m |-> m, reads |-> reads]

(* variant: a failed or non-boolean evaluation is a silent reject *)
WhereTrueEvalSilent(t, m, reads) ==
    LET val == Eval(m, t.WhereCtx.Ast)
    IN IF ~val.ok \/ val.val.k # "bool" THEN EvalResult(FALSE, "nil", m, reads)
       ELSE EvalResult(val.val.t, "nil", m, reads)

(* Tail of WhereTrue: evaluation of the expression in the environment m *)
WhereTrueEval(t, m, reads) ==
    LET val == Eval(m, t.WhereCtx.Ast)
    IN IF ~val.ok THEN EvalResult(FALSE, "cannot eval", m, reads)
       ELSE IF val.val.k # "bool" THEN EvalResult(FALSE, "not bool", m, reads)
       ELSE EvalResult(val.val.t, "nil", m, reads)

(* variant: every value is bound as it is *)
BindValueRaw(tbl, idx, rawValue) == [err |-> "nil", value |-> rawValue]

(* The coercion of one non-null raw value by the declared type of the      *)
(* column at ordinal idx: [err, value].  Indexing the ColumnList beyond    *)
(* its length is a runtime panic.                                          *)
BindValue(tbl, idx, rawValue) ==
    IF idx >= Len(tbl.OriginalTableColumns)
    THEN [err |-> "panic", value |-> rawValue]
    ELSE IF tbl.OriginalTableColumns[idx + 1].Type = TextColumnType
    THEN IF rawValue.k # "bytes"
         THEN [err |-> "expect []byte", value |-> rawValue]
         ELSE [err |-> "nil", value |-> BytesToString(rawValue.b)]
    ELSE [err |-> "nil", value |-> rawValue]

(* The range loop of WhereTrue, the map being traversed in the given order *)
RECURSIVE WhereTrueLoop(_, _, _, _, _, _, _)
WhereTrueLoop(t, tbl, values, order, j, m, reads) ==
    IF j > Len(order) THEN WhereTrueEval(t, m, reads)
    ELSE LET field == order[j]
             idx == t.WhereCtx.FieldsMap[field]
             nCols == Len(values)
         IN IF idx >= nCols THEN EvalResult(FALSE, "no enough columns", m, reads)
            ELSE LET rawValue == values[idx + 1]
                     read == reads \cup {idx}
                 IN IF rawValue.k = "nil"
                    THEN WhereTrueLoop(t, tbl, values, order, j + 1, (field :> rawValue) @@ m, read)
                    ELSE LET bound == BindValue(tbl, idx, rawValue)
                         IN IF bound.err # "nil"
                            THEN EvalResult(FALSE, bound.err, m, read)
                            ELSE WhereTrueLoop(t, tbl, values, order, j + 1,
                                               (field :> bound.value) @@ m, read)

(* variant: a row without columns is refused whatever the field map *)
WhereTrueNeedsColumn(t, tbl, values, order) ==
    IF Len(values) = 0 THEN EvalResult(FALSE, "no enough columns", EmptyMap, {})
    ELSE WhereTrueLoop(t, tbl, values, order, 1, EmptyMap, {})

(* variant: a field whose ordinal is beyond the row is skipped *)
WhereTrueSkipShort(t, tbl, values, order) ==
    WhereTrueLoop(t, tbl, values,
                  SelectSeq(order, LAMBDA f : t.WhereCtx.FieldsMap[f] < Len(values)),
                  1, EmptyMap, {})

WhereTrue(t, tbl, values, order) ==
    WhereTrueLoop(t, tbl, values, order, 1, EmptyMap, {})

(* the orders in which a range over the map may visit its keys *)
Orders(fieldsMap) ==
    LET n == Cardinality(DOMAIN fieldsMap)
    IN {o \in [1..n -> DOMAIN fieldsMap] : \A a, b \in 1..n : a # b => o[a] # o[b]}

-----------------------------------------------------------------------------
(* State machine *)

(* Filter expressions a job specification may declare *)
WhereTexts ==
    { <<"true">>, <<"TRUE">>, <<" ", "true", " ">>, <<"false">>,
      <<"1", "=", "1">>,
      <<"age", ">", "30">>,
      <<"age">>,
      <<"age", ">">>,
      <<"status", "=", "'x'">>,
      <<"Status", "=", "'x'">>,
      <<"note", "=", "'x'">>,
      <<"note", "=", "'x'", "and", "age", ">", "30">> }

NoEval ==
    [called |-> FALSE, row |-> <<>>, order |-> <<>>, res |-> EvalResult(FALSE, "nil", EmptyMap, {}),
     whereCtx |-> NoWhereCtx, cols |-> <<>>, ctxVersion |-> 0, tblVersion |-> 0]

NoCompile == [ok |-> FALSE, ctx |-> NoWhereCtx, err |-> NoError]

Init ==
    /\ table = NewTable("db", "t")
    /\ phase = "new"
    /\ tableCtx = NoTableCtx
    /\ compileRes = NoCompile
    /\ lastEval = NoEval
    /\ schemaVersion = 0
    /\ ctxVersion = 0
    /\ lastRet = FALSE
    /\ calls = 0

(* The catalog resolves the columns of the discovered table *)
LoadColumns(cols) ==
    /\ phase = "new"
    /\ table.OriginalTableColumns = NilColumnList
    /\ table' = [table EXCEPT !.OriginalTableColumns = cols]
    /\ UNCHANGED <<phase, tableCtx, compileRes, lastEval, schemaVersion, ctxVersion,
                   lastRet, calls>>

(* The job specification declares a filter for the table *)
LoadWhere(w) ==
    /\ phase = "new"
    /\ table.Where = DefaultWhere
    /\ w # DefaultWhere
    /\ table' = [table EXCEPT !.Where = w]
    /\ UNCHANGED <<phase, tableCtx, compileRes, lastEval, schemaVersion, ctxVersion,
                   lastRet, calls>>

(* The table is added to the table map: NewWhereCtx, then NewTableContext *)
Compile ==
    /\ phase = "new"
    /\ LET res == NewWhereCtx(table.Where, table)
       IN /\ compileRes' = res
          /\ IF res.ok
             THEN /\ tableCtx' = NewTableContext(table, res.ctx)
                  /\ phase' = "ready"
             ELSE /\ tableCtx' = NoTableCtx
                  /\ phase' = "failed"
    /\ ctxVersion' = schemaVersion
    /\ UNCHANGED <<table, lastEval, schemaVersion, lastRet, calls>>

(* A DDL event: the ColumnList of the table is replaced in place, the      *)
(* filter is recompiled and a fresh TableContext replaces the old one.     *)
(* The row evaluated before it has been forwarded or dropped by then.      *)
SchemaChange(cols) ==
    /\ phase = "ready"
    /\ schemaVersion < MaxSchemaChanges
    /\ cols # table.OriginalTableColumns
    /\ LET tbl == [table EXCEPT !.OriginalTableColumns = cols]
           res == NewWhereCtx(tbl.Where, tbl)
       IN /\ table' = tbl
          /\ compileRes' = res
          /\ IF res.ok
             THEN /\ tableCtx' = NewTableContext(tbl, res.ctx)
                  /\ phase' = "ready"
             ELSE /\ tableCtx' = NoTableCtx
                  /\ phase' = "failed"
    /\ schemaVersion' = schemaVersion + 1
    /\ ctxVersion' = schemaVersion + 1
    /\ lastRet' = FALSE
    /\ calls' = 0
    /\ lastEval' = NoEval

(* A decoded row event is filtered; the range over the field map visits   *)
(* its keys in any order.                                                  *)
EvalRow(row) ==
    /\ phase = "ready"
    /\ \E order \in Orders(tableCtx.WhereCtx.FieldsMap) :
          lastEval' = [called |-> TRUE, row |-> row, order |-> order,
                       res |-> WhereTrue(tableCtx, table, row, order),
                       whereCtx |-> tableCtx.WhereCtx, cols |-> table.OriginalTableColumns,
                       ctxVersion |-> ctxVersion, tblVersion |-> schemaVersion]
    /\ UNCHANGED <<table, phase, tableCtx, compileRes, schemaVersion, ctxVersion,
                   lastRet, calls>>

(* The one-shot check made by the single goroutine that owns the table *)
ShouldEmitDefinitionChanged ==
    /\ phase = "ready"
    /\ calls < MaxCalls
    /\ tableCtx' = [tableCtx EXCEPT !.DefChangedSent = TRUE]
    /\ lastRet' = ~tableCtx.DefChangedSent
    /\ calls' = calls + 1
    /\ UNCHANGED <<table, phase, compileRes, lastEval, schemaVersion, ctxVersion>>

Next ==
    \/ \E cols \in Schemas : LoadColumns(cols)
    \/ \E w \in WhereTexts : LoadWhere(w)
    \/ Compile
    \/ \E cols \in Schemas : SchemaChange(cols)
    \/ \E row \in Rows : EvalRow(row)
    \/ ShouldEmitDefinitionChanged

Spec == Init /\ [][Next]_vars

-----------------------------------------------------------------------------
(* Properties *)

EvalFieldsMap == lastEval.whereCtx.FieldsMap
EvalRawValue(f) == lastEval.row[EvalFieldsMap[f] + 1]
EvalColumnType(f) == lastEval.cols[EvalFieldsMap[f] + 1].Type
ShortFields == {f \in DOMAIN EvalFieldsMap : EvalFieldsMap[f] >= Len(lastEval.row)}
(* fields whose value is non-null, of a text column, and not a byte slice *)
UnbindableFields ==
    {f \in DOMAIN EvalFieldsMap \ ShortFields :
        /\ EvalRawValue(f).k \notin {"nil", "bytes"}
        /\ EvalColumnType(f) = TextColumnType}
PositionIn(order, f) == CHOOSE j \in 1..Len(order) : order[j] = f

(* C1: the one-shot check returns true on the first call after a compile or *)
(* schema change and false on every later call of the same schema version; *)
(* DefChangedSent is false in a new TableContext, set by the first call and *)
(* reset by a schema change, whatever rows are evaluated in between.       *)
OneShotPerSchemaVersion ==
    phase = "ready" =>
        /\ tableCtx.DefChangedSent = (calls > 0)
        /\ calls = 1 => lastRet
        /\ calls > 1 => ~lastRet

OneShotWitness ==
    /\ phase = "ready"
    /\ schemaVersion = 2
    /\ calls = 2
    /\ ~lastRet
    /\ lastEval.called

(* C2: with the default filter "true" (unset or declared) WhereTrue returns *)
(* (true, nil) for every row and reads no column of the row.               *)
DefaultFilterAcceptsEveryRow ==
    /\ table.Where = DefaultWhere => phase # "failed"
    /\ (lastEval.called /\ lastEval.whereCtx.Where = DefaultWhere) =>
          /\ lastEval.res.r = TRUE
          /\ lastEval.res.err = "nil"
          /\ lastEval.res.reads = {}
          /\ DOMAIN lastEval.res.m = {}

DefaultFilterWitness ==
    /\ lastEval.called
    /\ lastEval.whereCtx.Where = DefaultWhere
    /\ lastEval.row = <<NilValue, IntValue(31)>>
    /\ lastEval.res.r

(* the environment the binding rules prescribe for the evaluated row *)
PrescribedEnv ==
    [f \in DOMAIN EvalFieldsMap |->
        IF EvalRawValue(f).k = "bytes" /\ EvalColumnType(f) = TextColumnType
        THEN StrValue([j \in 1..Len(EvalRawValue(f).b) |-> CharOf(EvalRawValue(f).b[j])])
        ELSE EvalRawValue(f)]

(* C3: for a non-default predicate and a row wide enough for every ordinal *)
(* of the field map, WhereTrue returns (b, nil) exactly when the expression *)
(* evaluates to the boolean b over the bound values, and an error when the *)
(* evaluation fails or is not boolean; age > 30 accepts 31 and rejects 30.  *)
WhereTrueIsPredicateValue ==
    (lastEval.called /\ ~lastEval.whereCtx.IsDefault /\ ShortFields = {}) =>
        /\ IF UnbindableFields # {}
           THEN lastEval.res.err = "expect []byte" /\ ~lastEval.res.r
           ELSE LET v == Eval(PrescribedEnv, lastEval.whereCtx.Ast)
                IN IF v.ok /\ v.val.k = "bool"
                   THEN lastEval.res.err = "nil" /\ lastEval.res.r = v.val.t
                   ELSE lastEval.res.err \in {"cannot eval", "not bool"} /\ ~lastEval.res.r
        /\ (lastEval.whereCtx.Where = <<"age", ">", "30">> /\ EvalRawValue("age") = IntValue(31))
              => (lastEval.res.r /\ lastEval.res.err = "nil")
        /\ (lastEval.whereCtx.Where = <<"age", ">", "30">> /\ EvalRawValue("age") = IntValue(30))
              => (~lastEval.res.r /\ lastEval.res.err = "nil")

WhereTrueAcceptWitness ==
    /\ lastEval.called
    /\ lastEval.whereCtx.Where = <<"age", ">", "30">>
    /\ lastEval.row = <<BytesValue(<<120>>), IntValue(31)>>
    /\ lastEval.res.r
    /\ lastEval.res.err = "nil"

(* C4 as stated: a row shorter than some ordinal of the field map always   *)
(* yields the 'not enough columns' error.                                  *)
ShortRowAlwaysNotEnoughColumns ==
    (lastEval.called /\ ShortFields # {}) => lastEval.res.err = "no enough columns"

(* C4 amended: a row shorter than some ordinal of the field map never      *)
(* yields (b, nil) and no value beyond the row is read; the error is 'not   *)
(* enough columns' unless a field visited before every short field fails   *)
(* to bind, and then it is that binding error.                             *)
ShortRowIsAlwaysAnError ==
    (lastEval.called /\ ShortFields # {}) =>
        LET firstShort == CHOOSE j \in 1..Len(lastEval.order) :
                             /\ lastEval.order[j] \in ShortFields
                             /\ \A h \in 1..(j - 1) : lastEval.order[h] \notin ShortFields
            unbindableBefore ==
                \E f \in UnbindableFields : PositionIn(lastEval.order, f) < firstShort
        IN /\ ~lastEval.res.r
           /\ lastEval.res.err = IF unbindableBefore THEN "expect []byte" ELSE "no enough columns"
           /\ \A idx \in lastEval.res.reads : idx < Len(lastEval.row)

ShortRowWitness ==
    /\ lastEval.called
    /\ Cardinality(DOMAIN EvalFieldsMap) = 2
    /\ ShortFields # {}
    /\ lastEval.res.err = "expect []byte"

(* C5: a filter compiles exactly as its lower-cased spelling does: when the *)
(* lower-cased text compiles, the text compiles and binds the same ordinals *)
CaseInsensitiveResolution ==
    phase # "new" =>
        LET lower == NewWhereCtx(ToLower(table.Where), table)
        IN lower.ok =>
             /\ compileRes.ok
             /\ {compileRes.ctx.FieldsMap[f] : f \in DOMAIN compileRes.ctx.FieldsMap}
                  = {lower.ctx.FieldsMap[f] : f \in DOMAIN lower.ctx.FieldsMap}

(* the identifiers of the declared filter other than true / false *)
FreeIdentifiers ==
    LET ids == FindAllIdentityField(ParseExpression(table.Where).ast)
    IN {ids[j] : j \in 1..Len(ids)} \ {"true", "TRUE", "True", "false", "FALSE"}

(* C6 as stated: for any table, a parsed filter compiles exactly when each *)
(* of its identifiers other than true / false is a key of the ordinal map; *)
(* the field map then holds exactly those names with their catalog         *)
(* ordinals, and otherwise there is no WhereContext and the returned error *)
(* names the field, schema.table and the known fields.                     *)
CompileResolvesEveryIdentifier ==
    (phase # "new" /\ ParseExpression(table.Where).ok) =>
        LET ords == Ordinals(table.OriginalTableColumns)
            fm == compileRes.ctx.FieldsMap
        IN /\ compileRes.ok = (FreeIdentifiers \subseteq DOMAIN ords)
           /\ compileRes.ok =>
                /\ phase = "ready"
                /\ tableCtx.WhereCtx = compileRes.ctx
                /\ DOMAIN fm = FreeIdentifiers
                /\ \A f \in DOMAIN fm : fm[f] = ords[f]
           /\ ~compileRes.ok =>
                /\ phase = "failed"
                /\ compileRes.ctx = NoWhereCtx
                /\ compileRes.err.kind = "unknown field"
                /\ compileRes.err.field \in FreeIdentifiers \ DOMAIN ords
                /\ compileRes.err.schema = table.TableSchema
                /\ compileRes.err.table = table.TableName
                /\ compileRes.err.known = ords

(* C6 amended: for a table whose ColumnList is set the statement above     *)
(* holds, each bound ordinal being the position of the column of that      *)
(* name; for a table whose ColumnList is nil the filter compiles, with an  *)
(* empty field map, exactly when it has no identifier other than true /    *)
(* false, and otherwise the lookup panics and nothing is returned.         *)
CompileResolvesOrPanics ==
    (phase # "new" /\ ParseExpression(table.Where).ok) =>
      IF table.OriginalTableColumns = NilColumnList
      THEN /\ compileRes.ok = (FreeIdentifiers = {})
           /\ compileRes.ok =>
                /\ phase = "ready"
                /\ tableCtx.WhereCtx = compileRes.ctx
                /\ DOMAIN compileRes.ctx.FieldsMap = {}
           /\ ~compileRes.ok =>
                /\ phase = "failed"
                /\ compileRes.ctx = NoWhereCtx
                /\ compileRes.err.kind = "panic"
      ELSE
        LET ords == Ordinals(table.OriginalTableColumns)
            fm == compileRes.ctx.FieldsMap
        IN /\ compileRes.ok = (FreeIdentifiers \subseteq DOMAIN ords)
           /\ compileRes.ok =>
                /\ phase = "ready"
                /\ tableCtx.WhereCtx = compileRes.ctx
                /\ DOMAIN fm = FreeIdentifiers
                /\ \A f \in DOMAIN fm :
                      /\ fm[f] = ords[f]
                      /\ fm[f] < Len(table.OriginalTableColumns)
                      /\ ToLowerStr(table.OriginalTableColumns[fm[f] + 1].Name) = f
           /\ ~compileRes.ok =>
                /\ phase = "failed"
                /\ compileRes.ctx = NoWhereCtx
                /\ compileRes.err.kind = "unknown field"
                /\ compileRes.err.field \in FreeIdentifiers \ DOMAIN ords
                /\ compileRes.err.schema = table.TableSchema
                /\ compileRes.err.table = table.TableName
                /\ compileRes.err.known = ords

CompileUnknownFieldWitness ==
    /\ phase = "failed"
    /\ table.Where = <<"status", "=", "'x'">>
    /\ compileRes.err.field = "status"
    /\ compileRes.err.kind = "unknown field"
    /\ schemaVersion = 1

(* C7: a bound field holds null for a null raw value, the decoded text for *)
(* a byte slice of a text column, the raw value for any other column type; *)
(* a non-null value of a text column that is not a byte slice is never     *)
(* bound and the call returns an error.                                    *)
BindingByColumnType ==
    lastEval.called =>
        /\ \A f \in DOMAIN lastEval.res.m :
              LET raw == EvalRawValue(f)
                  bound == lastEval.res.m[f]
              IN /\ raw.k = "nil" => bound = NilValue
                 /\ (raw.k # "nil" /\ EvalColumnType(f) # TextColumnType) => bound = raw
                 /\ (raw.k # "nil" /\ EvalColumnType(f) = TextColumnType) =>
                       /\ raw.k = "bytes"
                       /\ bound.k = "str"
                       /\ Len(bound.s) = Len(raw.b)
                       /\ \A j \in 1..Len(raw.b) : bound.s[j] = CharOf(raw.b[j])
        /\ UnbindableFields # {} => lastEval.res.err \in {"expect []byte", "no enough columns"}
        /\ (UnbindableFields # {} /\ ShortFields = {}) => lastEval.res.err = "expect []byte"
        /\ lastEval.res.err \in {"nil", "cannot eval", "not bool"} =>
              DOMAIN lastEval.res.m = DOMAIN EvalFieldsMap

BindingTextWitness ==
    /\ lastEval.called
    /\ lastEval.whereCtx.Where = <<"note", "=", "'x'">>
    /\ lastEval.row = <<BytesValue(<<120>>)>>
    /\ lastEval.res.m["note"] = StrValue(<<"x">>)
    /\ lastEval.res.r

(* C9: every row is evaluated with a WhereContext compiled against the     *)
(* current ColumnList: each ordinal of the field map indexes the current   *)
(* ColumnList at the column of that name, and no lookup is out of range.   *)
EvalUsesCurrentColumnList ==
    lastEval.called =>
        /\ lastEval.ctxVersion = lastEval.tblVersion
        /\ lastEval.res.err # "panic"
        /\ \A f \in DOMAIN EvalFieldsMap :
              /\ EvalFieldsMap[f] < Len(lastEval.cols)
              /\ ToLowerStr(lastEval.cols[EvalFieldsMap[f] + 1].Name) = f

EvalAfterSchemaChangeWitness ==
    /\ lastEval.called
    /\ lastEval.tblVersion = 2
    /\ lastEval.whereCtx.Where = <<"age", ">", "30">>
    /\ EvalFieldsMap["age"] = 1
    /\ lastEval.res.r

AlwaysTrueTexts == {<<"true">>, <<"TRUE">>, <<" ", "true", " ">>, <<"1", "=", "1">>}

(* C10 as stated: IsDefault holds exactly when the trimmed, case-folded    *)
(* filter text is "true".                                                  *)
IsDefaultIffTrimmedTrue ==
    phase = "ready" =>
        tableCtx.WhereCtx.IsDefault = (ToLower(TrimSpace(table.Where)) = <<"true">>)

(* C10 amended: IsDefault holds exactly when the case-folded filter text,  *)
(* untrimmed, is "true"; default or not, an always-true filter accepts     *)
(* every row.                                                              *)
IsDefaultIffFoldedTrue ==
    /\ phase = "ready" =>
          tableCtx.WhereCtx.IsDefault =
              (Len(table.Where) = 1 /\ table.Where[1] \in {"true", "TRUE", "True"})
    /\ (lastEval.called /\ lastEval.whereCtx.Where \in AlwaysTrueTexts) =>
          (lastEval.res.r /\ lastEval.res.err = "nil")

IsDefaultUntrimmedWitness ==
    /\ phase = "ready"
    /\ table.Where = <<" ", "true", " ">>
    /\ ~tableCtx.WhereCtx.IsDefault
    /\ lastEval.called
    /\ lastEval.whereCtx.Where = table.Where
    /\ lastEval.res.r

====
